---- MODULE Spec2Model ----
(***************************************************************************)
(* Model of mainapp.py, the Streamlit "Visa Roadmap Assistant".            *)
(*                                                                         *)
(* Every widget interaction re-runs the script top to bottom, so each      *)
(* action below changes one widget and then executes the whole script:     *)
(* text extraction (primary OCR call, local fallback), and, when the run   *)
(* was caused by a click on "Generate", the roadmap request and the        *)
(* rendering.  Text is modelled as sequences of one-character strings so   *)
(* that split/join/strip/lower are computed, not assumed.                  *)
(***************************************************************************)
EXTENDS Integers, Sequences, FiniteSets, TLC

VARIABLES
    roadmap_type,     \* st.selectbox value (None or an option label)
    additional_info,  \* st.text_area value
    uploaded_file,    \* st.file_uploader value (None or a document)
    clicked,          \* st.button("Generate") returned True in this run
    ocr,              \* outcome of the primary OCR request of this run
    fallback_calls,   \* number of fallback_extract_text invocations of this run
    extracted_text,   \* value of extracted_text in this run
    messages,         \* st.warning / st.error / st.success calls of this run, in order
    generate_button,  \* the "Generate" button was put on the page in this run
    request,          \* payload of the roadmap request of this run
    api,              \* outcome of the roadmap request of this run
    result,           \* value returned by call_visa_roadmap_api in this run
    subheader,        \* st.subheader of this run
    sections,         \* expanders put on the page in this run, with their content
    pdf_content,      \* value of pdf_content in this run
    file_name,        \* file_name of the st.download_button of this run
    crashed           \* an exception escaped the script in this run

vars == <<roadmap_type, additional_info, uploaded_file, clicked, ocr,
          fallback_calls, extracted_text, messages, generate_button, request,
          api, result, subheader, sections, pdf_content, file_name, crashed>>

----------------------------------------------------------------------------
(* Bounds of the model                                                     *)

\* longest text field of an OCR response body
MaxLen == 4
\* largest number of pages of an uploaded document
MaxPages == 4

----------------------------------------------------------------------------
(* Values                                                                  *)

\* a name that was not assigned in this run
Unset == [tag |-> "unset"]
\* Python None, JSON null
None == [tag |-> "none"]
\* a Python str
Str(s) == [tag |-> "str", val |-> s]
\* a Python dict
Dict(d) == [tag |-> "dict", val |-> d]
\* the dict with no key
EmptyDict == [k \in {} |-> <<>>]

Warning(text) == [kind |-> "warning", text |-> text]
Error(text) == [kind |-> "error", text |-> text]
Success(text) == [kind |-> "success", text |-> text]

\* the characters texts are made of: a letter, a blank and a newline
Chars == {"a", " ", "\n"}

IsSpace(c) == c \in {" ", "\n", "\t", "\r"}

\* all sequences over S of length at most n
SeqsUpTo(S, n) == UNION {[1..k -> S] : k \in 0..n}

\* "Immigration Visa"
ImmigrationVisa == <<"I", "m", "m", "i", "g", "r", "a", "t", "i", "o", "n", " ", "V", "i", "s", "a">>
\* "Study Visa"
StudyVisa == <<"S", "t", "u", "d", "y", " ", "V", "i", "s", "a">>
\* "Travel Visa"
TravelVisa == <<"T", "r", "a", "v", "e", "l", " ", "V", "i", "s", "a">>
\* "Work Visa"
WorkVisa == <<"W", "o", "r", "k", " ", "V", "i", "s", "a">>

\* the options of the selectbox
VisaTypes == {ImmigrationVisa, StudyVisa, TravelVisa, WorkVisa}

\* "Using fallback PDF extraction method"
FallbackWarning == <<"U", "s", "i", "n", "g", " ", "f", "a", "l", "l", "b", "a", "c", "k", " ", "P", "D", "F", " ", "e", "x", "t", "r", "a", "c", "t", "i", "o", "n", " ", "m", "e", "t", "h", "o", "d">>
\* "Error in text extraction: "
ExtractionErrorPrefix == <<"E", "r", "r", "o", "r", " ", "i", "n", " ", "t", "e", "x", "t", " ", "e", "x", "t", "r", "a", "c", "t", "i", "o", "n", ":", " ">>
\* "PDF text extracted successfully!"
ExtractedSuccess == <<"P", "D", "F", " ", "t", "e", "x", "t", " ", "e", "x", "t", "r", "a", "c", "t", "e", "d", " ", "s", "u", "c", "c", "e", "s", "s", "f", "u", "l", "l", "y", "!">>
\* "API Error: "
ApiErrorPrefix == <<"A", "P", "I", " ", "E", "r", "r", "o", "r", ":", " ">>
\* "Data Not Found ("
DataNotFound == <<"D", "a", "t", "a", " ", "N", "o", "t", " ", "F", "o", "u", "n", "d", " ", "(">>

\* str(e) of the exceptions the environment raises
\* "timed out"
TimedOut == <<"t", "i", "m", "e", "d", " ", "o", "u", "t">>
\* "Expecting value"
ExpectingValue == <<"E", "x", "p", "e", "c", "t", "i", "n", "g", " ", "v", "a", "l", "u", "e">>
\* "EOF marker not found"
EOFMarkerNotFound == <<"E", "O", "F", " ", "m", "a", "r", "k", "e", "r", " ", "n", "o", "t", " ", "f", "o", "u", "n", "d">>

\* "# Immigration Roadmap\n"
ImmigrationHeading == <<"#", " ", "I", "m", "m", "i", "g", "r", "a", "t", "i", "o", "n", " ", "R", "o", "a", "d", "m", "a", "p", "\n">>
\* " Roadmap\n\n"
RoadmapSuffix == <<" ", "R", "o", "a", "d", "m", "a", "p", "\n", "\n">>
\* "Your Immigration Roadmap"
YourImmigrationRoadmap == <<"Y", "o", "u", "r", " ", "I", "m", "m", "i", "g", "r", "a", "t", "i", "o", "n", " ", "R", "o", "a", "d", "m", "a", "p">>
\* "Your "
Your == <<"Y", "o", "u", "r", " ">>
\* " Roadmap"
RoadmapWord == <<" ", "R", "o", "a", "d", "m", "a", "p">>
\* "_roadmap.pdf"
FileSuffix == <<"_", "r", "o", "a", "d", "m", "a", "p", ".", "p", "d", "f">>
\* "immigration_roadmap.pdf"
ImmigrationFileName == <<"i", "m", "m", "i", "g", "r", "a", "t", "i", "o", "n", "_", "r", "o", "a", "d", "m", "a", "p", ".", "p", "d", "f">>
\* "Roadmap"
RoadmapLabel == <<"R", "o", "a", "d", "m", "a", "p">>
\* "CRS Score Details"
CrsLabel == <<"C", "R", "S", " ", "S", "c", "o", "r", "e", " ", "D", "e", "t", "a", "i", "l", "s">>
\* "Eligible Job Roles"
JobRolesLabel == <<"E", "l", "i", "g", "i", "b", "l", "e", " ", "J", "o", "b", " ", "R", "o", "l", "e", "s">>
\* "NOC Codes"
NocLabel == <<"N", "O", "C", " ", "C", "o", "d", "e", "s">>
\* "---"
Separator == <<"-", "-", "-">>
\* "None", str(None)
NoneWord == <<"N", "o", "n", "e">>

----------------------------------------------------------------------------
(* Python string operations                                                *)

\* str(n) of a non-negative int
RECURSIVE Decimal(_)
Decimal(n) ==
    LET digit == <<"0", "1", "2", "3", "4", "5", "6", "7", "8", "9">>[(n % 10) + 1]
    IN  IF n < 10 THEN <<digit>> ELSE Decimal(n \div 10) \o <<digit>>

\* s.split(): the maximal runs of non-whitespace characters of s
RECURSIVE SplitFrom(_, _, _)
SplitFrom(s, word, words) ==
    IF s = <<>>
    THEN IF word = <<>> THEN words ELSE Append(words, word)
    ELSE IF IsSpace(Head(s))
         THEN SplitFrom(Tail(s), <<>>, IF word = <<>> THEN words ELSE Append(words, word))
         ELSE SplitFrom(Tail(s), Append(word, Head(s)), words)

Split(s) == SplitFrom(s, <<>>, <<>>)

\* sep.join(words)
RECURSIVE Join(_, _)
Join(sep, words) ==
    IF words = <<>> THEN <<>>
    ELSE IF Len(words) = 1 THEN words[1]
    ELSE words[1] \o sep \o Join(sep, Tail(words))

\* s.strip()
RECURSIVE LStrip(_)
LStrip(s) == IF s # <<>> /\ IsSpace(Head(s)) THEN LStrip(Tail(s)) ELSE s

RECURSIVE RStrip(_)
RStrip(s) ==
    IF s # <<>> /\ IsSpace(s[Len(s)]) THEN RStrip(SubSeq(s, 1, Len(s) - 1)) ELSE s

Strip(s) == RStrip(LStrip(s))

\* LowerChar without the lower-casing
LowerChar_keep(c) == c

\* c.lower() of one character; the upper-case letters are those of the
\* option labels of the selectbox
LowerChar(c) ==
    CASE c = "I" -> "i"
      [] c = "S" -> "s"
      [] c = "T" -> "t"
      [] c = "V" -> "v"
      [] c = "W" -> "w"
      [] OTHER -> c

\* s.lower()
Lower(s) == [i \in 1..Len(s) |-> LowerChar(s[i])]

----------------------------------------------------------------------------
(* The environment: documents and the answers of the OCR service           *)

\* page.extract_text() of one page: one character
PageTexts == {<<c>> : c \in Chars}

\* the documents a user can upload; PdfReader raises on an unreadable one
Documents ==
    {[readable |-> TRUE, pages |-> p] : p \in SeqsUpTo(PageTexts, MaxPages)}
        \cup {[readable |-> FALSE, pages |-> <<>>]}

\* what the user can type into the text area
AdditionalInfos == {<<>>, <<"x">>}

\* what the primary OCR request can do: raise, or answer with a status and
\* a body that is not JSON, has no text, has a null text or has a text
OcrOutcomes ==
    {[tag |-> "exception", msg |-> TimedOut]}
        \cup {[tag |-> "response", status_code |-> 500, body |-> [tag |-> "invalid"]]}
        \cup {[tag |-> "response", status_code |-> 200, body |-> b] :
                b \in {[tag |-> "invalid"], Dict(EmptyDict), Dict([text |-> None])}
                        \cup {Dict([text |-> Str(t)]) : t \in SeqsUpTo(Chars, MaxLen)}}

----------------------------------------------------------------------------
(* Text extraction                                                         *)

\* text += page.extract_text() over the pages
RECURSIVE ConcatPages(_)
ConcatPages(pages) ==
    IF pages = <<>> THEN <<>> ELSE Head(pages) \o ConcatPages(Tail(pages))

\* fallback_extract_text that strips the text but keeps its whitespace runs
fallback_extract_text_raw(pdf_file) ==
    IF pdf_file.readable
    THEN [ret |-> Strip(ConcatPages(pdf_file.pages)),
          msgs |-> <<>>,
          raised |-> FALSE]
    ELSE [ret |-> <<>>,
          msgs |-> <<Error(ExtractionErrorPrefix \o EOFMarkerNotFound)>>,
          raised |-> FALSE]

\* fallback_extract_text without its except branch
fallback_extract_text_uncaught(pdf_file) ==
    IF pdf_file.readable
    THEN [ret |-> Strip(Join(<<" ">>, Split(ConcatPages(pdf_file.pages)))),
          msgs |-> <<>>,
          raised |-> FALSE]
    ELSE [ret |-> <<>>, msgs |-> <<>>, raised |-> TRUE]

fallback_extract_text(pdf_file) ==
    IF pdf_file.readable
    THEN [ret |-> Strip(Join(<<" ">>, Split(ConcatPages(pdf_file.pages)))),
          msgs |-> <<>>,
          raised |-> FALSE]
    ELSE [ret |-> <<>>,
          msgs |-> <<Error(ExtractionErrorPrefix \o EOFMarkerNotFound)>>,
          raised |-> FALSE]

\* response.json().get('text', '') followed by .split() raises unless the
\* body is a JSON object whose text, when present, is a string
BodyHasText(body) ==
    /\ body.tag = "dict"
    /\ "text" \in DOMAIN body.val => body.val.text.tag = "str"

\* response.json().get('text', '')
BodyText(body) ==
    IF "text" \in DOMAIN body.val THEN body.val.text.val ELSE <<>>

extract_text_from_pdf(pdf_file, o) ==
    LET \* the except branch
        handler ==
            LET fb == fallback_extract_text(pdf_file)
            IN  [ret |-> fb.ret,
                 msgs |-> <<Warning(FallbackWarning)>> \o fb.msgs,
                 fallback_calls |-> 1,
                 raised |-> fb.raised]
    IN  IF o.tag = "exception" THEN handler
        ELSE IF o.status_code = 200
        THEN IF BodyHasText(o.body)
             THEN [ret |-> Join(<<" ">>, Split(BodyText(o.body))),
                   msgs |-> <<>>,
                   fallback_calls |-> 0,
                   raised |-> FALSE]
             ELSE handler
        ELSE LET fb == fallback_extract_text(pdf_file)
             IN  IF fb.raised
                 THEN [ret |-> handler.ret,
                       msgs |-> fb.msgs \o handler.msgs,
                       fallback_calls |-> 2,
                       raised |-> handler.raised]
                 ELSE [ret |-> fb.ret,
                       msgs |-> fb.msgs,
                       fallback_calls |-> 1,
                       raised |-> FALSE]

----------------------------------------------------------------------------
(* The roadmap request                                                     *)

\* result fields of an Immigration answer
FullResult ==
    [questionnaire |-> <<"q">>, job_roles |-> <<"j">>, noc_codes |-> << <<"1">>, <<"2">> >>,
     crs_score |-> <<"c">>, roadmap |-> <<"r">>]

ResultFields == DOMAIN FullResult

\* d without the key k
Without(d, k) == [f \in (DOMAIN d) \ {k} |-> d[f]]

\* the JSON values the roadmap service can answer with
ApiBodies ==
    {None, Str(<<>>), Str(<<"r">>), Dict(EmptyDict), Dict(FullResult)}
        \cup {Dict(Without(FullResult, k)) : k \in ResultFields}

\* what the roadmap request can do: raise, or answer with a status and a
\* body that is JSON or not
ApiOutcomes ==
    {[tag |-> "exception", msg |-> TimedOut]}
        \cup {[tag |-> "response", status_code |-> c, body |-> [tag |-> "invalid"]] : c \in {404, 500}}
        \cup {[tag |-> "response", status_code |-> 200, body |-> [tag |-> "invalid"]]}
        \cup {[tag |-> "response", status_code |-> 200, body |-> [tag |-> "json", val |-> v]] :
                v \in ApiBodies}

\* call_visa_roadmap_api without the branch for the status 404
call_visa_roadmap_api_no404(text, type, additional_information, a) ==
    LET payload == [questionnaire |-> text,
                    roadmap_type |-> type,
                    additional_information |-> additional_information]
    IN  IF a.tag = "exception"
        THEN [request |-> payload, ret |-> None,
              msgs |-> <<Error(ApiErrorPrefix \o a.msg)>>]
        ELSE IF a.status_code = 200
        THEN IF a.body.tag = "json"
             THEN [request |-> payload, ret |-> a.body.val, msgs |-> <<>>]
             ELSE [request |-> payload, ret |-> None,
                   msgs |-> <<Error(ApiErrorPrefix \o ExpectingValue)>>]
        ELSE [request |-> payload, ret |-> None,
              msgs |-> <<Error(ApiErrorPrefix \o Decimal(a.status_code))>>]

call_visa_roadmap_api(text, type, additional_information, a) ==
    LET payload == [questionnaire |-> text,
                    roadmap_type |-> type,
                    additional_information |-> additional_information]
    IN  IF a.tag = "exception"
        THEN [request |-> payload, ret |-> None,
              msgs |-> <<Error(ApiErrorPrefix \o a.msg)>>]
        ELSE IF a.status_code = 200
        THEN IF a.body.tag = "json"
             THEN [request |-> payload, ret |-> a.body.val, msgs |-> <<>>]
             ELSE [request |-> payload, ret |-> None,
                   msgs |-> <<Error(ApiErrorPrefix \o ExpectingValue)>>]
        ELSE IF a.status_code = 404
        THEN [request |-> payload, ret |-> None,
              msgs |-> <<Error(ApiErrorPrefix \o DataNotFound
                                 \o Decimal(a.status_code) \o <<")">>)>>]
        ELSE [request |-> payload, ret |-> None,
              msgs |-> <<Error(ApiErrorPrefix \o Decimal(a.status_code))>>]

----------------------------------------------------------------------------
(* Rendering                                                               *)

\* Truthy when the test "if result:" is left out
Truthy_always(v) == TRUE

\* Python truth value of a result: "if result:"
Truthy(v) ==
    CASE v.tag = "none" -> FALSE
      [] v.tag = "str" -> v.val # <<>>
      [] v.tag = "dict" -> DOMAIN v.val # {}

\* f"{v}" of a str or None
Format(v) == IF v.tag = "str" THEN v.val ELSE NoneWord

\* data.get(key, '')
Get(data, key) == IF key \in DOMAIN data.val THEN data.val[key] ELSE <<>>

create_pdf_content(data, type) ==
    IF data.tag = "dict"
    THEN ImmigrationHeading \o <<"\n">> \o Get(data, "roadmap") \o <<"\n">>
    ELSE <<"#", " ">> \o type \o RoadmapSuffix \o Format(data)

\* the expanders of the Immigration branch, in the order of the script,
\* each with the key of result it reads
ImmigrationExpanders ==
    <<[label |-> RoadmapLabel, key |-> "roadmap"],
      [label |-> CrsLabel, key |-> "crs_score"],
      [label |-> JobRolesLabel, key |-> "job_roles"],
      [label |-> NocLabel, key |-> "noc_codes"]>>

\* for noc in result["noc_codes"]: st.markdown(noc); st.markdown("---")
RECURSIVE NocBlocks(_)
NocBlocks(nocs) ==
    IF nocs = <<>> THEN <<>>
    ELSE <<Head(nocs), Separator>> \o NocBlocks(Tail(nocs))

\* the st.markdown calls inside one expander
ExpanderContent(data, key) ==
    IF key = "noc_codes" THEN NocBlocks(data.val[key]) ELSE <<data.val[key]>>

\* runs the expanders one after the other; result[key] raises when result
\* is not a dict or lacks the key, and the run ends inside that expander
RECURSIVE RenderExpanders(_, _)
RenderExpanders(data, expanders) ==
    IF expanders = <<>> THEN [sections |-> <<>>, raised |-> FALSE]
    ELSE LET e == Head(expanders)
         IN  IF data.tag # "dict" \/ e.key \notin DOMAIN data.val
             THEN [sections |-> <<[label |-> e.label, content |-> <<>>]>>,
                   raised |-> TRUE]
             ELSE LET rest == RenderExpanders(data, Tail(expanders))
                  IN  [sections |-> <<[label |-> e.label,
                                       content |-> ExpanderContent(data, e.key)]>>
                                        \o rest.sections,
                       raised |-> rest.raised]

\* the body of "if result:" of the Immigration branch
RenderImmigration(data, type) ==
    LET r == RenderExpanders(data, ImmigrationExpanders)
    IN  [subheader |-> Str(YourImmigrationRoadmap),
         sections |-> r.sections,
         pdf_content |-> IF r.raised THEN Unset ELSE Str(create_pdf_content(data, type)),
         file_name |-> IF r.raised THEN Unset ELSE Str(ImmigrationFileName),
         crashed |-> r.raised]

\* the body of "if result:" of the branch of the other visa types
RenderOther(data, type) ==
    [subheader |-> Str(Your \o type \o RoadmapWord),
     sections |-> <<[label |-> RoadmapLabel, content |-> <<data>>]>>,
     pdf_content |-> Str(create_pdf_content(data, type)),
     file_name |-> Str(Lower(type) \o FileSuffix),
     crashed |-> FALSE]

\* nothing rendered
NoRender ==
    [subheader |-> Unset, sections |-> <<>>, pdf_content |-> Unset,
     file_name |-> Unset, crashed |-> FALSE]

\* ButtonReached when the button is put under "if extracted_text:"
ButtonReached_nonempty(ex) == ~ex.raised /\ ex.ret # <<>>

\* st.button("Generate") is reached whenever extract_text_from_pdf returned
ButtonReached(ex) == ~ex.raised

----------------------------------------------------------------------------
(* One run of the script                                                   *)

\* type: selectbox, info: text_area, file: file_uploader, click: the run was
\* caused by "Generate", o and a: what the two services do in this run
Script(type, info, file, click, o, a) ==
    IF type = None \/ file = None
    THEN [clicked |-> FALSE, ocr |-> Unset, fallback_calls |-> 0,
          extracted_text |-> Unset, messages |-> <<>>, generate_button |-> FALSE,
          request |-> Unset, api |-> Unset, result |-> Unset, render |-> NoRender]
    ELSE LET ex == extract_text_from_pdf(file, o)
             text == IF ex.raised THEN Unset ELSE Str(ex.ret)
             shown == IF ~ex.raised /\ ex.ret # <<>>
                      THEN <<Success(ExtractedSuccess)>> ELSE <<>>
             button == ButtonReached(ex)
         IN  IF ~(button /\ click)
             THEN [clicked |-> FALSE, ocr |-> o, fallback_calls |-> ex.fallback_calls,
                   extracted_text |-> text, messages |-> ex.msgs \o shown,
                   generate_button |-> button,
                   request |-> Unset, api |-> Unset, result |-> Unset,
                   render |-> [NoRender EXCEPT !.crashed = ex.raised]]
             ELSE LET call == call_visa_roadmap_api(ex.ret, type.val, info, a)
                  IN  [clicked |-> TRUE, ocr |-> o, fallback_calls |-> ex.fallback_calls,
                       extracted_text |-> text,
                       messages |-> ex.msgs \o shown \o call.msgs,
                       generate_button |-> TRUE,
                       request |-> call.request, api |-> a, result |-> call.ret,
                       render |-> IF ~Truthy(call.ret) THEN NoRender
                                  ELSE IF type.val = ImmigrationVisa
                                  THEN RenderImmigration(call.ret, type.val)
                                  ELSE RenderOther(call.ret, type.val)]

\* the widgets take the given values and the script runs
Run(type, info, file, click, o, a) ==
    \E s \in {Script(type, info, file, click, o, a)} :
        /\ roadmap_type' = type
        /\ additional_info' = info
        /\ uploaded_file' = file
        /\ clicked' = s.clicked
        /\ ocr' = s.ocr
        /\ fallback_calls' = s.fallback_calls
        /\ extracted_text' = s.extracted_text
        /\ messages' = s.messages
        /\ generate_button' = s.generate_button
        /\ request' = s.request
        /\ api' = s.api
        /\ result' = s.result
        /\ subheader' = s.render.subheader
        /\ sections' = s.render.sections
        /\ pdf_content' = s.render.pdf_content
        /\ file_name' = s.render.file_name
        /\ crashed' = s.render.crashed

\* an outcome of the roadmap request, for the runs that do not make it
NoApi == CHOOSE a \in ApiOutcomes : TRUE

----------------------------------------------------------------------------
(* The page                                                                *)

\* the page as first served: nothing selected, nothing uploaded
Init ==
    /\ roadmap_type = None
    /\ additional_info = <<>>
    /\ uploaded_file = None
    /\ clicked = FALSE
    /\ ocr = Unset
    /\ fallback_calls = 0
    /\ extracted_text = Unset
    /\ messages = <<>>
    /\ generate_button = FALSE
    /\ request = Unset
    /\ api = Unset
    /\ result = Unset
    /\ subheader = Unset
    /\ sections = <<>>
    /\ pdf_content = Unset
    /\ file_name = Unset
    /\ crashed = FALSE

\* the user picks a visa type; ocrs: what the OCR service may do
SelectVisaTypeWith(ocrs) ==
    \E t \in VisaTypes :
        \E o \in (IF uploaded_file = None THEN {Unset} ELSE ocrs) :
            Run(Str(t), additional_info, uploaded_file, FALSE, o, NoApi)

\* the user types additional information
EnterAdditionalInfoWith(ocrs) ==
    \E info \in AdditionalInfos :
        \E o \in (IF roadmap_type = None \/ uploaded_file = None THEN {Unset} ELSE ocrs) :
            Run(roadmap_type, info, uploaded_file, FALSE, o, NoApi)

\* the user uploads a questionnaire, one of docs
UploadFileWith(docs, ocrs) ==
    \E d \in docs :
        \E o \in (IF roadmap_type = None THEN {Unset} ELSE ocrs) :
            Run(roadmap_type, additional_info, d, FALSE, o, NoApi)

\* the user clicks "Generate"; apis: what the roadmap service may do
ClickGenerateWith(ocrs, apis) ==
    /\ generate_button
    /\ \E o \in ocrs, a \in apis :
            Run(roadmap_type, additional_info, uploaded_file, TRUE, o, a)

----------------------------------------------------------------------------
(* The whole page, with a few documents and OCR answers and every answer   *)
(* of the roadmap service                                                  *)

UiDocuments ==
    {[readable |-> TRUE, pages |-> << <<"a">> >>],
     [readable |-> TRUE, pages |-> <<>>],
     [readable |-> FALSE, pages |-> <<>>]}

UiOcrOutcomes ==
    {[tag |-> "exception", msg |-> TimedOut],
     [tag |-> "response", status_code |-> 500, body |-> [tag |-> "invalid"]],
     [tag |-> "response", status_code |-> 200, body |-> [tag |-> "invalid"]],
     [tag |-> "response", status_code |-> 200, body |-> Dict([text |-> Str(<<"a">>)])]}

SelectVisaType == SelectVisaTypeWith(UiOcrOutcomes)

EnterAdditionalInfo == EnterAdditionalInfoWith(UiOcrOutcomes)

UploadFile == UploadFileWith(UiDocuments, UiOcrOutcomes)

ClickGenerate == ClickGenerateWith(UiOcrOutcomes, ApiOutcomes)

Next == SelectVisaType \/ EnterAdditionalInfo \/ UploadFile \/ ClickGenerate

Spec == Init /\ [][Next]_vars

----------------------------------------------------------------------------
(* Text extraction on its own: the first upload after the first selection, *)
(* with every document and every OCR answer within the bounds              *)

SelectFirst ==
    /\ roadmap_type = None
    /\ uploaded_file = None
    /\ SelectVisaTypeWith(OcrOutcomes)

UploadFirst ==
    /\ roadmap_type # None
    /\ uploaded_file = None
    /\ UploadFileWith(Documents, OcrOutcomes)

NextExtract == SelectFirst \/ UploadFirst

SpecExtract == Init /\ [][NextExtract]_vars

----------------------------------------------------------------------------
(* Properties                                                              *)

\* "API Error: Data Not Found (404)"
Msg404 == <<"A", "P", "I", " ", "E", "r", "r", "o", "r", ":", " ", "D", "a", "t", "a", " ", "N", "o", "t", " ", "F", "o", "u", "n", "d", " ", "(", "4", "0", "4", ")">>
\* "API Error: 500"
Msg500 == <<"A", "P", "I", " ", "E", "r", "r", "o", "r", ":", " ", "5", "0", "0">>
\* "API Error: timed out"
MsgTimedOut == <<"A", "P", "I", " ", "E", "r", "r", "o", "r", ":", " ", "t", "i", "m", "e", "d", " ", "o", "u", "t">>
\* "API Error: Expecting value"
MsgExpectingValue == <<"A", "P", "I", " ", "E", "r", "r", "o", "r", ":", " ", "E", "x", "p", "e", "c", "t", "i", "n", "g", " ", "v", "a", "l", "u", "e">>
\* "Error in text extraction: EOF marker not found"
MsgExtraction == <<"E", "r", "r", "o", "r", " ", "i", "n", " ", "t", "e", "x", "t", " ", "e", "x", "t", "r", "a", "c", "t", "i", "o", "n", ":", " ", "E", "O", "F", " ", "m", "a", "r", "k", "e", "r", " ", "n", "o", "t", " ", "f", "o", "u", "n", "d">>
\* "immigration_roadmap.pdf"
NameImmigration == <<"i", "m", "m", "i", "g", "r", "a", "t", "i", "o", "n", "_", "r", "o", "a", "d", "m", "a", "p", ".", "p", "d", "f">>
\* "study_roadmap.pdf"
NameStudy == <<"s", "t", "u", "d", "y", "_", "r", "o", "a", "d", "m", "a", "p", ".", "p", "d", "f">>
\* "travel_roadmap.pdf"
NameTravel == <<"t", "r", "a", "v", "e", "l", "_", "r", "o", "a", "d", "m", "a", "p", ".", "p", "d", "f">>
\* "work_roadmap.pdf"
NameWork == <<"w", "o", "r", "k", "_", "r", "o", "a", "d", "m", "a", "p", ".", "p", "d", "f">>
\* "study visa_roadmap.pdf"
NameStudyVisa == <<"s", "t", "u", "d", "y", " ", "v", "i", "s", "a", "_", "r", "o", "a", "d", "m", "a", "p", ".", "p", "d", "f">>
\* "travel visa_roadmap.pdf"
NameTravelVisa == <<"t", "r", "a", "v", "e", "l", " ", "v", "i", "s", "a", "_", "r", "o", "a", "d", "m", "a", "p", ".", "p", "d", "f">>
\* "work visa_roadmap.pdf"
NameWorkVisa == <<"w", "o", "r", "k", " ", "v", "i", "s", "a", "_", "r", "o", "a", "d", "m", "a", "p", ".", "p", "d", "f">>
\* "# Study Visa Roadmap\n\n"
HeadingStudyVisa == <<"#", " ", "S", "t", "u", "d", "y", " ", "V", "i", "s", "a", " ", "R", "o", "a", "d", "m", "a", "p", "\n", "\n">>
\* "# Travel Visa Roadmap\n\n"
HeadingTravelVisa == <<"#", " ", "T", "r", "a", "v", "e", "l", " ", "V", "i", "s", "a", " ", "R", "o", "a", "d", "m", "a", "p", "\n", "\n">>
\* "# Work Visa Roadmap\n\n"
HeadingWorkVisa == <<"#", " ", "W", "o", "r", "k", " ", "V", "i", "s", "a", " ", "R", "o", "a", "d", "m", "a", "p", "\n", "\n">>
\* "# Immigration Roadmap"
HeadingImmigration == <<"#", " ", "I", "m", "m", "i", "g", "r", "a", "t", "i", "o", "n", " ", "R", "o", "a", "d", "m", "a", "p">>

\* something of a report is on the page
Rendered ==
    subheader # Unset \/ sections # <<>> \/ pdf_content # Unset \/ file_name # Unset

\* the whole report is on the page, download button included
ReportOffered == sections # <<>> /\ pdf_content # Unset /\ file_name # Unset

\* s starts with prefix
StartsWith(s, prefix) ==
    Len(s) >= Len(prefix) /\ SubSeq(s, 1, Len(prefix)) = prefix

\* the errors call_visa_roadmap_api surfaced in this run
ApiErrors ==
    SelectSeq(messages, LAMBDA m : m.kind = "error" /\ StartsWith(m.text, ApiErrorPrefix))

\* the roadmap service answered with the status c
ApiStatus(c) == api.tag = "response" /\ api.status_code = c

\* the roadmap service answered with a status other than 200 and 404
ApiOtherStatus == api.tag = "response" /\ api.status_code \notin {200, 404}

\* the OCR service answered with the status 200
Ocr200 == ocr.tag = "response" /\ ocr.status_code = 200

\* the primary OCR call answered with another status than 200, or raised
OcrFailed == ocr.tag = "exception" \/ (ocr.tag = "response" /\ ocr.status_code # 200)

\* whitespace runs are single blanks and there is none at either end
IsNormalized(s) ==
    \A i \in 1..Len(s) :
        IsSpace(s[i]) => /\ s[i] = " "
                         /\ 1 < i
                         /\ i < Len(s)
                         /\ ~IsSpace(s[i + 1])

\* C1: the render step (sections, PDF content, download button) is reached
\* only with a non-null result of the client; after a 404, another non-200
\* status or an exception of the request nothing is rendered and no
\* download button is offered
C1_NullNeverRendered ==
    /\ Rendered => clicked /\ result # None /\ result # Unset
    /\ (clicked /\ (api.tag = "exception" \/ ~ApiStatus(200))) =>
            result = None /\ ~Rendered

C1_Witness ==
    /\ clicked
    /\ ApiStatus(404)
    /\ result = None
    /\ sections = <<>>
    /\ file_name = Unset

\* C2 as stated: HTTP 200 returns the parsed body with no error surfaced;
\* 404, another non-200 status and a transport exception each surface
\* exactly one error and return null
C2_Original ==
    clicked =>
        /\ ApiStatus(200) =>
                /\ ApiErrors = <<>>
                /\ api.body.tag = "json" => result = api.body.val
        /\ ApiStatus(404) => result = None /\ ApiErrors = <<Error(Msg404)>>
        /\ ApiOtherStatus => result = None /\ ApiErrors = <<Error(Msg500)>>
        /\ api.tag = "exception" => result = None /\ ApiErrors = <<Error(MsgTimedOut)>>

\* C2 amended: HTTP 200 with a body that parses as JSON returns the parsed
\* body with no error surfaced; HTTP 200 with a body that does not parse
\* surfaces the message of the parse exception and returns null; 404
\* surfaces "Data Not Found (404)" and returns null; another status
\* surfaces "API Error: <code>" and returns null; an exception of the
\* request surfaces its message and returns null; each failure surfaces
\* exactly one error
C2_Amended ==
    clicked =>
        /\ (ApiStatus(200) /\ api.body.tag = "json") =>
                result = api.body.val /\ ApiErrors = <<>>
        /\ (ApiStatus(200) /\ api.body.tag = "invalid") =>
                result = None /\ ApiErrors = <<Error(MsgExpectingValue)>>
        /\ ApiStatus(404) => result = None /\ ApiErrors = <<Error(Msg404)>>
        /\ ApiOtherStatus => result = None /\ ApiErrors = <<Error(Msg500)>>
        /\ api.tag = "exception" => result = None /\ ApiErrors = <<Error(MsgTimedOut)>>

C2_Witness ==
    /\ clicked
    /\ ApiStatus(404)
    /\ result = None
    /\ Len(ApiErrors) = 1
    /\ messages[Len(messages)] = Error(Msg404)

\* C3 as stated: the fallback extractor is invoked exactly once when the
\* primary OCR call returns a non-200 status or raises, never when it
\* returns 200, and the text of the fallback path is whitespace-normalized
C3_Original ==
    ocr # Unset =>
        /\ OcrFailed => fallback_calls = 1
        /\ Ocr200 => fallback_calls = 0
        /\ fallback_calls >= 1 => IsNormalized(extracted_text.val)

\* C3 amended: the fallback extractor is invoked exactly once when the
\* primary OCR call returns a non-200 status, raises, or returns 200 with a
\* body no text can be read from (not JSON, or a text that is not a
\* string); it is never invoked when the primary returns 200 with a
\* readable body; the text of the fallback path is that of the uploaded
\* document with every whitespace run collapsed to one blank and no
\* whitespace at either end
C3_Amended ==
    ocr # Unset =>
        /\ OcrFailed => fallback_calls = 1
        /\ (Ocr200 /\ ~BodyHasText(ocr.body)) => fallback_calls = 1
        /\ (Ocr200 /\ BodyHasText(ocr.body)) => fallback_calls = 0
        /\ fallback_calls >= 1 =>
                /\ IsNormalized(extracted_text.val)
                /\ uploaded_file.readable =>
                        Split(extracted_text.val) = Split(ConcatPages(uploaded_file.pages))

C3_Witness ==
    /\ ocr # Unset
    /\ ocr.tag = "response"
    /\ ocr.status_code = 500
    /\ fallback_calls = 1
    /\ uploaded_file.pages = << <<"a">>, <<"\n">>, <<" ">>, <<"a">> >>
    /\ extracted_text = Str(<<"a", " ", "a">>)

\* C4: every fall back from the primary OCR service to the local parser,
\* after a non-200 response as after an exception, emits a warning, and an
\* error is emitted when the primary and the fallback both fail
C4_WarningOnEveryFallback ==
    ocr # Unset =>
        /\ fallback_calls >= 1 => \E i \in 1..Len(messages) : messages[i].kind = "warning"
        /\ (fallback_calls >= 1 /\ ~uploaded_file.readable) =>
                \E i \in 1..Len(messages) : messages[i].kind = "error"

\* C5: extract_text_from_pdf returns a string and lets no exception escape,
\* whatever the primary OCR call and the fallback do; when the fallback
\* throws, the text is empty and the extraction error is reported
C5_NeverFailsOutwardly ==
    ocr # Unset =>
        /\ ~crashed
        /\ extracted_text # Unset
        /\ extracted_text.tag = "str"
        /\ (fallback_calls >= 1 /\ ~uploaded_file.readable) =>
                /\ extracted_text = Str(<<>>)
                /\ \E i \in 1..Len(messages) : messages[i] = Error(MsgExtraction)

C5_Witness ==
    /\ ocr # Unset
    /\ Ocr200
    /\ ocr.body.tag = "invalid"
    /\ ~uploaded_file.readable
    /\ fallback_calls = 1
    /\ extracted_text = Str(<<>>)
    /\ ~crashed
    /\ messages = <<Warning(FallbackWarning), Error(MsgExtraction)>>

\* C6: for Immigration and any non-null result, here a mapping with some
\* fields possibly missing, the rendering completes without crashing and
\* produces exactly five labeled display sections
C6_FiveSections ==
    (clicked /\ roadmap_type = Str(ImmigrationVisa) /\ result.tag = "dict") =>
        ~crashed /\ Len(sections) = 5

\* C7: for every other category and every non-null result, string or
\* mapping, the downloadable content is the heading naming the selected
\* category followed by the raw result, and never has the Immigration heading
C7_CategoryHeadingOnly ==
    (clicked /\ roadmap_type # Str(ImmigrationVisa) /\ pdf_content # Unset) =>
        LET heading == CASE roadmap_type.val = StudyVisa -> HeadingStudyVisa
                         [] roadmap_type.val = TravelVisa -> HeadingTravelVisa
                         [] roadmap_type.val = WorkVisa -> HeadingWorkVisa
        IN  /\ StartsWith(pdf_content.val, heading)
            /\ ~StartsWith(pdf_content.val, HeadingImmigration)
            /\ result.tag = "str" => pdf_content.val = heading \o result.val

C9_GenerateNotGated ==
    (roadmap_type # None /\ uploaded_file # None) =>
        /\ generate_button
        /\ clicked => request # Unset /\ Str(request.questionnaire) = extracted_text

C9_Witness ==
    /\ clicked
    /\ ~uploaded_file.readable
    /\ OcrFailed
    /\ extracted_text = Str(<<>>)
    /\ request # Unset
    /\ request.questionnaire = <<>>
    /\ \E i \in 1..Len(messages) : messages[i] = Error(MsgExtraction)

\* C10: every Generate click ends either with the report and its download
\* button on the page or with an error of the roadmap request surfaced,
\* and never with neither
C10_ReportOrError ==
    clicked => (ReportOffered /\ ApiErrors = <<>>) \/ (~Rendered /\ ApiErrors # <<>>)

====
